---- MODULE Spec2Model ----
(***************************************************************************)
(* mt_media_collector (src/src/main.rs): collects the media files of the   *)
(* mods of a Minetest world, hashes them, deduplicates by hash, places     *)
(* them in a media directory under hex(hash) and writes an MTHS index.     *)
(***************************************************************************)
EXTENDS Integers, Sequences, FiniteSets, TLC

(* ---------------------------------------------------------------------- *)
(* Bounds of the model and constants of the program                       *)
(* ---------------------------------------------------------------------- *)

\* how many times the program is started on the same file system
MaxRuns == 2
\* how many extra mod paths (positional PATHS) a command line gives
MaxExtra == 2

\* type Sha1DigestBytes = [u8; 20]
HashLen == 20
\* key.split_at(9): the length of "load_mod_"
PrefixLen == 9
\* BufWriter::new(file): the capacity of the buffer, in bytes
BufCapacity == 8192

(* ---------------------------------------------------------------------- *)
(* Strings that the code takes apart are sequences of characters          *)
(* ---------------------------------------------------------------------- *)

LoadModPrefix == <<"l", "o", "a", "d", "_", "m", "o", "d", "_">>

\* str::starts_with
StartsWith(s, p) == Len(s) >= Len(p) /\ SubSeq(s, 1, Len(p)) = p

\* str::split_at(n), second half
SplitAtTail(s, n) == SubSeq(s, n + 1, Len(s))

\* Vec::contains
Contains(list, x) == \E i \in 1..Len(list) : list[i] = x

(* ---------------------------------------------------------------------- *)
(* Hashes                                                                 *)
(* ---------------------------------------------------------------------- *)

\* the file contents of the model's file systems
Contents == {"abc", "xyz", "empty"}

\* hash_file: the SHA-1 digest of a file's bytes (the digests of "abc",
\* "xyz" and of the empty file), as 20 bytes
hash_file(content) ==
    CASE content = "abc" ->
           <<169, 153, 62, 54, 71, 6, 129, 106, 186, 62,
             37, 113, 120, 80, 194, 108, 156, 208, 216, 157>>
      [] content = "xyz" ->
           <<102, 178, 116, 23, 211, 126, 2, 76, 70, 82,
             108, 47, 109, 53, 138, 117, 79, 197, 82, 243>>
      [] content = "empty" ->
           <<218, 57, 163, 238, 94, 107, 75, 13, 50, 85,
             191, 239, 149, 96, 24, 144, 175, 216, 7, 9>>

HexDigits == <<"0", "1", "2", "3", "4", "5", "6", "7",
               "8", "9", "a", "b", "c", "d", "e", "f">>

\* format!("{:02x}", b)
HexByte(b) == <<HexDigits[(b \div 16) + 1], HexDigits[(b % 16) + 1]>>

\* to_hex: the lowercase hex of every byte, concatenated
RECURSIVE to_hex(_)
to_hex(input) ==
    IF input = <<>> THEN <<>>
    ELSE HexByte(Head(input)) \o to_hex(Tail(input))

\* a.hash.cmp(&b.hash) = Less: arrays of u8 compare lexicographically
RECURSIVE HashLess(_, _)
HashLess(a, b) ==
    IF a = <<>> \/ b = <<>> THEN a = <<>> /\ b # <<>>
    ELSE IF Head(a) # Head(b) THEN Head(a) < Head(b)
    ELSE HashLess(Tail(a), Tail(b))

(* ---------------------------------------------------------------------- *)
(* Assets and the media set                                               *)
(* ---------------------------------------------------------------------- *)

\* a path below one of the searched roots: root is "worldmods", "game" or
\* "extra" (idx: which extra path), dirs the directory names from the root
\* to the mod, then the media folder and the file
MkPath(root, idx, dirs, media, file) ==
    [root |-> root, idx |-> idx, dirs |-> dirs, media |-> media, file |-> file]

\* Asset::new
NewAsset(pb, h) == [path |-> pb, hash |-> h]

\* impl PartialEq for Asset
AssetEq(a, b) == a.hash = b.hash

\* slice::sort_by is a stable sort: an element goes after the elements
\* that are not greater than it
RECURSIVE InsertSorted(_, _)
InsertSorted(sorted, a) ==
    IF sorted = <<>> THEN <<a>>
    ELSE IF HashLess(a.hash, Head(sorted).hash)
         THEN <<a>> \o sorted
         ELSE <<Head(sorted)>> \o InsertSorted(Tail(sorted), a)

RECURSIVE SortFrom(_, _)
SortFrom(sorted, rest) ==
    IF rest = <<>> THEN sorted
    ELSE SortFrom(InsertSorted(sorted, Head(rest)), Tail(rest))

\* a run that forgets the sort
sort_by_hash_missing(ms) == ms

\* ms.sort_by(|a, b| a.hash.cmp(&b.hash))
sort_by_hash(ms) == SortFrom(<<>>, ms)

\* ms.dedup(): of consecutive equal elements the first is kept
RECURSIVE DedupFrom(_, _)
DedupFrom(kept, rest) ==
    IF rest = <<>> THEN kept
    ELSE IF kept # <<>> /\ AssetEq(kept[Len(kept)], Head(rest))
         THEN DedupFrom(kept, Tail(rest))
         ELSE DedupFrom(Append(kept, Head(rest)), Tail(rest))

\* a dedup that keeps the last of consecutive equal elements
RECURSIVE DedupLastFrom(_, _)
DedupLastFrom(kept, rest) ==
    IF rest = <<>> THEN kept
    ELSE IF kept # <<>> /\ AssetEq(kept[Len(kept)], Head(rest))
         THEN DedupLastFrom(SubSeq(kept, 1, Len(kept) - 1) \o <<Head(rest)>>, Tail(rest))
         ELSE DedupLastFrom(Append(kept, Head(rest)), Tail(rest))

dedup_keeps_last(ms) == DedupLastFrom(<<>>, ms)

dedup(ms) == DedupFrom(<<>>, ms)

(* ---------------------------------------------------------------------- *)
(* The file system the program reads                                      *)
(* ---------------------------------------------------------------------- *)

\* static MEDIA_DIRS
MEDIA_DIRS == <<"textures", "models", "sounds">>

\* an entry of a media folder: isFile is pb.is_file(), ioErr that read_dir
\* yields an error for the entry, readable that hash_file can open and
\* read the file
MediaFile(n, c) ==
    [name |-> n, isFile |-> TRUE, ioErr |-> FALSE, readable |-> TRUE, content |-> c]
MediaSubdir(n) ==
    [name |-> n, isFile |-> FALSE, ioErr |-> FALSE, readable |-> TRUE, content |-> "empty"]
MediaUnreadable(n) ==
    [name |-> n, isFile |-> TRUE, ioErr |-> FALSE, readable |-> FALSE, content |-> "abc"]
MediaBrokenEntry(n) ==
    [name |-> n, isFile |-> TRUE, ioErr |-> TRUE, readable |-> TRUE, content |-> "abc"]

\* a media folder of a mod: isDir that it is a directory, readable that
\* read_dir succeeds on it, searchable that the metadata of the names in
\* it can be read
NoFolder == [isDir |-> FALSE, readable |-> TRUE, searchable |-> TRUE, files |-> <<>>]
Folder(files) == [isDir |-> TRUE, readable |-> TRUE, searchable |-> TRUE, files |-> files]
LockedFolder == [isDir |-> TRUE, readable |-> FALSE, searchable |-> TRUE, files |-> <<>>]
\* a folder that may be listed and not searched
UnsearchableFolder(files) ==
    [isDir |-> TRUE, readable |-> TRUE, searchable |-> FALSE, files |-> files]

Media(t, m, s) == [textures |-> t, models |-> m, sounds |-> s]
NoMedia == Media(NoFolder, NoFolder, NoFolder)

\* an entry of a searched directory: unicode that its name is valid
\* Unicode (OsStr::to_str gives Some), isDir that it is a directory, modpack
\* and init that modpack.txt and init.lua are in it, readable that
\* read_dir succeeds on it, searchable that the metadata of the names in
\* it can be read, ioErr that the parent's read_dir yields an error for it
DirEntry(n, mp, ini, rd, sub, med) ==
    [name |-> n, unicode |-> TRUE, isDir |-> TRUE, ioErr |-> FALSE,
     modpack |-> mp, init |-> ini,
     readable |-> rd, searchable |-> TRUE, entries |-> sub, media |-> med]
FileEntry(n) ==
    [name |-> n, unicode |-> TRUE, isDir |-> FALSE, ioErr |-> FALSE,
     modpack |-> FALSE, init |-> FALSE,
     readable |-> TRUE, searchable |-> TRUE, entries |-> <<>>, media |-> NoMedia]
BrokenEntry(n) ==
    [name |-> n, unicode |-> TRUE, isDir |-> TRUE, ioErr |-> TRUE,
     modpack |-> FALSE, init |-> TRUE,
     readable |-> TRUE, searchable |-> TRUE, entries |-> <<>>, media |-> NoMedia]
\* an entry whose name is bytes that are not valid Unicode
NonUnicode(e) == [e EXCEPT !.unicode = FALSE]
\* a directory of mode 000: it may be neither listed nor searched
Inaccessible(e) == [e EXCEPT !.readable = FALSE, !.searchable = FALSE]
Mod(n, med) == DirEntry(n, FALSE, TRUE, TRUE, <<>>, med)
Modpack(n, sub) == DirEntry(n, TRUE, FALSE, TRUE, sub, NoMedia)

\* a searched root: exists is Path::exists()
Root(entries) ==
    [exists |-> TRUE, isDir |-> TRUE, readable |-> TRUE, searchable |-> TRUE,
     entries |-> entries]
AbsentRoot ==
    [exists |-> FALSE, isDir |-> FALSE, readable |-> FALSE, searchable |-> FALSE,
     entries |-> <<>>]
\* a directory that read_dir may not read
LockedRoot ==
    [exists |-> TRUE, isDir |-> TRUE, readable |-> FALSE, searchable |-> TRUE,
     entries |-> <<>>]
\* a regular file where a directory is looked for: read_dir fails on it
FileRoot ==
    [exists |-> TRUE, isDir |-> FALSE, readable |-> FALSE, searchable |-> FALSE,
     entries |-> <<>>]
\* a root that may be listed and not searched
UnsearchableRoot(entries) == [Root(entries) EXCEPT !.searchable = FALSE]

(* ---------------------------------------------------------------------- *)
(* Discovery                                                              *)
(* ---------------------------------------------------------------------- *)

\* io::Result<()> together with the media set the call has pushed to, or
\* the panic of an expect() that unwinds through the call
Ok(ms) == [err |-> FALSE, panic |-> FALSE, ms |-> ms]
Err(ms) == [err |-> TRUE, panic |-> FALSE, ms |-> ms]
Panic(ms) == [err |-> FALSE, panic |-> TRUE, ms |-> ms]

\* the call did not return Ok: ? returns the error, a panic unwinds
Ends(r) == r.err \/ r.panic

\* Path::is_dir, Path::is_file and Path::exists read the metadata of the
\* path and answer false when that fails, as it does for a name in a
\* directory that cannot be searched
is_dir(dir, e) == dir.searchable /\ e.isDir
is_file(dir, f) == dir.searchable /\ f.isFile
marker_exists(dir, present) == dir.searchable /\ present

RECURSIVE MediaLoop(_, _, _, _)
MediaLoop(ms, folder, k, path) ==
    IF k > Len(folder.files) THEN Ok(ms)
    ELSE LET f == folder.files[k] IN
         IF f.ioErr THEN Err(ms)
         ELSE IF ~is_file(folder, f) THEN MediaLoop(ms, folder, k + 1, path)
         ELSE IF ~f.readable THEN Err(ms)
         ELSE MediaLoop(Append(ms, NewAsset([path EXCEPT !.file = f.name],
                                            hash_file(f.content))),
                        folder, k + 1, path)

search_media_dir(ms, folder, path) ==
    IF ~folder.readable THEN Err(ms)
    ELSE MediaLoop(ms, folder, 1, path)

RECURSIVE ModLoop(_, _, _, _)
ModLoop(ms, mod, k, path) ==
    IF k > Len(MEDIA_DIRS) THEN Ok(ms)
    ELSE LET media_dir == MEDIA_DIRS[k]
             folder == mod.media[media_dir]
             r == IF is_dir(mod, folder)
                  THEN search_media_dir(ms, folder, [path EXCEPT !.media = media_dir])
                  ELSE Ok(ms)
         IN IF r.err THEN r ELSE ModLoop(r.ms, mod, k + 1, path)

search_mod_dir(ms, mod, path) == ModLoop(ms, mod, 1, path)

RECURSIVE search_modpack_dir(_, _, _, _)
RECURSIVE ModpackLoop(_, _, _, _, _)
\* the if-chain of search_modpack_dir for one entry e of the directory dir;
\* with a filter the name of a leaf mod is turned into a String, and
\* to_str().expect(..) panics on a name that is not valid Unicode
\* (file_name() is always Some for an entry of read_dir)
SearchEntry(ms, dir, e, path, mods) ==
    LET entry_path == [path EXCEPT !.dirs = Append(@, e.name)] IN
    IF e.ioErr THEN Err(ms)
    ELSE IF ~is_dir(dir, e) THEN Ok(ms)
    ELSE IF marker_exists(e, e.modpack) THEN search_modpack_dir(ms, e, entry_path, mods)
    ELSE IF marker_exists(e, e.init)
         THEN IF mods.some /\ ~e.unicode
              THEN Panic(ms)
              ELSE IF mods.some /\ ~Contains(mods.list, e.name)
              THEN Ok(ms)
              ELSE search_mod_dir(ms, e, entry_path)
    ELSE Ok(ms)

ModpackLoop(ms, dir, k, path, mods) ==
    IF k > Len(dir.entries) THEN Ok(ms)
    ELSE LET r == SearchEntry(ms, dir, dir.entries[k], path, mods)
         IN IF Ends(r) THEN r ELSE ModpackLoop(r.ms, dir, k + 1, path, mods)

search_modpack_dir(ms, dir, path, mods) ==
    IF ~dir.readable THEN Err(ms)
    ELSE ModpackLoop(ms, dir, 1, path, mods)

\* Option<&ModList>
SomeMods(list) == [some |-> TRUE, list |-> list]
NoMods == [some |-> FALSE, list |-> <<>>]

\* get_mod_list: the names of the load_mod_ keys of world.mt set to true
RECURSIVE ModListLoop(_, _, _)
ModListLoop(list, pairs, k) ==
    IF k > Len(pairs) THEN list
    ELSE LET key == pairs[k].key
             value == pairs[k].value
         IN IF ~StartsWith(key, LoadModPrefix) \/ value # "true"
            THEN ModListLoop(list, pairs, k + 1)
            ELSE ModListLoop(Append(list, SplitAtTail(key, PrefixLen)), pairs, k + 1)

get_mod_list(world_mt) == ModListLoop(<<>>, world_mt.pairs, 1)

(* ---------------------------------------------------------------------- *)
(* The output: the media directory and the index file                     *)
(* ---------------------------------------------------------------------- *)

NoPath == MkPath("none", 0, <<>>, "", "")

\* an entry of the media directory: how it came to be ("none": no entry,
\* "pre": a regular file that was there before, "copy", "hardlink",
\* "symlink"), for a symlink whether its target resolves, the asset path
\* it was placed from, and whether the file under the name was left short
\* of the bytes of the asset by an fs::copy that failed
NoEntry == [kind |-> "none", resolves |-> FALSE, src |-> NoPath, truncated |-> FALSE]
PreEntry == [kind |-> "pre", resolves |-> TRUE, src |-> NoPath, truncated |-> FALSE]

\* Path::exists follows symbolic links: a link whose target does not
\* resolve does not exist
PathExists(e) ==
    \/ e.kind \in {"pre", "copy", "hardlink"}
    \/ e.kind = "symlink" /\ e.resolves

\* the names a media directory of the model can hold
Names == {to_hex(hash_file(c)) : c \in Contents}

\* what the environment lets a primitive do: succeed, fail with nothing
\* done, or, for fs::copy, which creates to_path and then writes to it,
\* fail after to_path was created
EnvOutcomes(mode) ==
    IF mode = "Copy" THEN {"ok", "fails", "fails after create"} ELSE {"ok", "fails"}

\* the entry at to_path after an fs::copy that was let to create it: it is
\* written through a symlink, and when the copy failed it is short of the
\* bytes of the asset, unless the asset has none
Copied(e, asset, failed) ==
    LET short == failed /\ asset.hash # hash_file("empty") IN
    IF e.kind = "symlink"
    THEN [e EXCEPT !.resolves = TRUE, !.truncated = short]
    ELSE [kind |-> "copy", resolves |-> TRUE, src |-> asset.path, truncated |-> short]

\* the copy_func of copy_assets applied to one asset whose to_path does
\* not exist: e is the directory entry at to_path, env what the
\* environment lets the primitive do, resolves that the asset's path
\* as written resolves from the media directory
copy_func(mode, platform, e, asset, env, resolves) ==
    CASE mode = "Symlink" ->
           \* symlink_file: the stub of the platforms without symlinks,
           \* else symlink(2), which fails on an existing name
           IF platform = "other" \/ e.kind # "none" \/ env # "ok"
           THEN [err |-> TRUE, entry |-> e]
           ELSE [err |-> FALSE,
                 entry |-> [kind |-> "symlink", resolves |-> resolves,
                            src |-> asset.path, truncated |-> FALSE]]
      [] mode = "Hardlink" ->
           \* fs::hard_link fails on an existing name
           IF e.kind # "none" \/ env # "ok"
           THEN [err |-> TRUE, entry |-> e]
           ELSE [err |-> FALSE,
                 entry |-> [kind |-> "hardlink", resolves |-> TRUE,
                            src |-> asset.path, truncated |-> FALSE]]
      [] mode = "Copy" ->
           \* fs::copy opens to_path for writing, through a symlink, and
           \* then copies the bytes
           CASE env = "ok" -> [err |-> FALSE, entry |-> Copied(e, asset, FALSE)]
             [] env = "fails" -> [err |-> TRUE, entry |-> e]
             [] env = "fails after create" ->
                  [err |-> TRUE, entry |-> Copied(e, asset, TRUE)]

\* b"MTHS\x00\x01"
IndexHeader == <<77, 84, 72, 83, 0, 1>>

\* the bytes of for asset in ms { file.write_all(&asset.hash)? }: byte n
\* is a byte of the hash of the asset it falls into
IndexHashes(ms) ==
    [n \in 1..(HashLen * Len(ms)) |->
        ms[((n - 1) \div HashLen) + 1].hash[((n - 1) % HashLen) + 1]]

\* the bytes write_index hands to its writer
IndexBytes(ms) == IndexHeader \o IndexHashes(ms)

\* how many bytes the BufWriter has passed on to the file when the last
\* write_all of an index of n hashes has returned: a slice that does not
\* fit the rest of the buffer has the buffer flushed first, so the first
\* flush takes the header and the hashes that fit after it, and every
\* later one the hashes that fit the buffer
FlushedInWrites(n) ==
    LET first == (BufCapacity - Len(IndexHeader)) \div HashLen
        later == BufCapacity \div HashLen
    IN IF n <= first THEN 0
       ELSE Len(IndexHeader) + HashLen * first
            + HashLen * later * ((n - first - 1) \div later)

\* what write_index returns once the file is created, and the length of
\* the file it leaves, which holds that many of the first bytes of the
\* index: Ok with all; Err when a flush inside write_all fails, with what
\* the file took of the buffer then and when the writer was dropped; Ok
\* when only the flush of the drop fails, whose error is ignored, with
\* whatever the file took
write_index_outcomes(ms) ==
    LET total == Len(IndexBytes(ms))
        flushed == FlushedInWrites(Len(ms))
    IN {[err |-> FALSE, len |-> total]}
       \cup {[err |-> FALSE, len |-> n] : n \in flushed..(total - 1)}
       \cup {[err |-> TRUE, len |-> n] : n \in (IF flushed > 0 THEN 0..flushed ELSE {})}

(* ---------------------------------------------------------------------- *)
(* The command line                                                       *)
(* ---------------------------------------------------------------------- *)

Platforms == {"unix", "windows", "other"}

\* a get_args that adds --symlink on every platform
KnownFlagsEverywhere(platform) == {"copy", "symlink", "hardlink"}

\* the arguments clap knows: --symlink is added on unix and windows only
KnownFlags(platform) ==
    IF platform = "other" THEN {"copy", "hardlink"}
    ELSE {"copy", "symlink", "hardlink"}

\* check_parent_dir: the parent of the path is a directory
check_parent_dir(parentIsDir) == parentIsDir

\* check_new_dir: the path is a directory, or its parent is
check_new_dir(isDir, parentIsDir) == isDir \/ check_parent_dir(parentIsDir)

\* check_existing_dir: the path is a directory
check_existing_dir(isDir) == isDir

\* check_new_file: the path is a file, or its parent is a directory
check_new_file(isFile, parentIsDir) == isFile \/ check_parent_dir(parentIsDir)

\* get_matches accepts the command line: no unknown argument; one of the
\* output group; out conflicts with media and index; media requires one of
\* media_transfer; the transfer flags require one of media_out; at most
\* one member of the group media_transfer, which is not multiple; and
\* every validator accepts its path (valid)
ArgsAccepted(platform, flags, outopts, valid) ==
    /\ flags \subseteq KnownFlags(platform)
    /\ Cardinality(flags) <= 1
    /\ outopts # {}
    /\ "out" \in outopts => outopts = {"out"}
    /\ "media" \in outopts => flags # {}
    /\ flags # {} => outopts \cap {"out", "media"} # {}
    /\ valid

\* let copy_type = ...
CopyType(flags) ==
    IF "copy" \in flags THEN "Copy"
    ELSE IF "symlink" \in flags THEN "Symlink"
    ELSE IF "hardlink" \in flags THEN "Hardlink"
    ELSE "None"

\* media_path and index_path are Some
HasMediaPath(outopts) == "media" \in outopts \/ "out" \in outopts
HasIndexPath(outopts) == "index" \in outopts \/ "out" \in outopts

(* ---------------------------------------------------------------------- *)
(* The inputs of the model: worlds, games and extra mod paths             *)
(* ---------------------------------------------------------------------- *)

Key(name) == LoadModPrefix \o name
Pair(k, v) == [key |-> k, value |-> v]

\* world.mt as Ini::load_from_file gives it: load fails when the file is
\* missing or malformed, else the pairs of the general section
WorldMtFiles ==
    { [loads |-> FALSE, pairs |-> <<>>],
      [loads |-> TRUE,
       pairs |-> << Pair(<<"g", "a", "m", "e", "i", "d">>, "true"),
                    Pair(Key(<<"a">>), "true"),
                    Pair(Key(<<"b">>), "false"),
                    Pair(Key(<<"c">>), "true") >>],
      [loads |-> TRUE,
       pairs |-> << Pair(Key(<<"b">>), "true"),
                    Pair(Key(<<"a">>), "True"),
                    Pair(<<"x">> \o Key(<<"c">>), "true"),
                    Pair(<<"l", "o", "a", "d", "_", "m", "o", "_", "c">>, "true") >>],
      [loads |-> TRUE,
       pairs |-> << Pair(Key(<<"p">>), "true"),
                    Pair(Key(<<"d">>), "true"),
                    Pair(Key(<<>>), "true") >>] }

ModA == Mod(<<"a">>, Media(Folder(<<MediaFile("t.png", "abc")>>), NoFolder, NoFolder))
ModB == Mod(<<"b">>, Media(Folder(<<MediaFile("t.png", "abc"), MediaFile("u.png", "xyz")>>),
                           NoFolder, NoFolder))
ModC == Mod(<<"c">>, Media(Folder(<<MediaSubdir("hd"), MediaFile("w.png", "empty")>>),
                           Folder(<<MediaFile("m.obj", "abc")>>),
                           Folder(<<MediaFile("s.ogg", "xyz")>>)))
\* hash_file fails on the second texture
ModBadFile == Mod(<<"a">>, Media(Folder(<<MediaFile("t.png", "xyz"), MediaUnreadable("v.png")>>),
                                 NoFolder, Folder(<<MediaFile("s.ogg", "abc")>>)))
\* read_dir fails on the models folder
ModBadFolder == Mod(<<"c">>, Media(Folder(<<MediaFile("t.png", "empty")>>),
                                   LockedFolder, NoFolder))
\* a modpack that no world enables by name, holding mod b
PackQ == Modpack(<<"q">>, <<ModB>>)
\* a directory with both modpack.txt and init.lua, and media of its own
PackInit == DirEntry(<<"d">>, TRUE, TRUE, TRUE, <<ModA>>,
                     Media(Folder(<<MediaFile("own.png", "empty")>>), NoFolder, NoFolder))
\* a modpack in a modpack
PackDeep == Modpack(<<"q">>, <<FileEntry(<<"r">>), Modpack(<<"b">>, <<ModC>>)>>)
\* a modpack read_dir fails on
PackLocked == DirEntry(<<"p">>, TRUE, FALSE, FALSE, <<ModA>>, NoMedia)
\* a directory with neither marker, with media folders
PlainDir == DirEntry(<<"a">>, FALSE, FALSE, TRUE, <<ModA>>,
                     Media(Folder(<<MediaFile("t.png", "xyz")>>), NoFolder, NoFolder))

\* mod c with a textures folder that may be listed and not searched
ModDim == Mod(<<"c">>, Media(UnsearchableFolder(<<MediaFile("t.png", "xyz")>>),
                             Folder(<<MediaFile("m.obj", "abc")>>), NoFolder))

\* a name of the two bytes ff fe, which are not valid Unicode
RawName == <<"0xff", "0xfe">>
\* a leaf mod and a modpack with that name
ModRaw == NonUnicode(Mod(RawName, Media(Folder(<<MediaFile("t.png", "abc")>>),
                                        NoFolder, NoFolder)))
PackRaw == NonUnicode(Modpack(RawName, <<ModC>>))

WorldRoots ==
    { AbsentRoot,
      LockedRoot,
      FileRoot,
      Root(<<ModA>>),
      Root(<<ModB, ModA, ModC>>),
      Root(<<PackQ, FileEntry(<<"c">>), PlainDir>>),
      Root(<<PackInit, ModC>>),
      Root(<<PackDeep>>),
      Root(<<ModA, PackLocked, ModB>>),
      Root(<<ModBadFile>>),
      Root(<<ModB, BrokenEntry(<<"a">>)>>),
      Root(<<Inaccessible(ModA), ModC>>),
      Root(<<Inaccessible(PackQ), ModA>>),
      Root(<<ModA, ModRaw, ModC>>),
      Root(<<PackRaw, ModB>>) }

GameRoots ==
    { AbsentRoot,
      Root(<<>>),
      Root(<<ModB>>),
      Root(<<ModC, ModA>>),
      Root(<<PlainDir, PackInit>>),
      Root(<<ModA, ModBadFolder>>),
      Root(<<ModB, Inaccessible(ModA)>>),
      Root(<<ModDim>>),
      UnsearchableRoot(<<ModA>>),
      Root(<<ModRaw>>) }

ExtraRoots ==
    { Root(<<ModC, ModB>>),
      Root(<<PackDeep>>),
      Root(<<PackQ, ModBadFile>>),
      Root(<<ModRaw>>),
      LockedRoot,
      FileRoot,
      AbsentRoot }

\* the sequences of at most n elements of S
RECURSIVE SeqsUpTo(_, _)
SeqsUpTo(S, n) ==
    IF n = 0 THEN {<<>>}
    ELSE LET shorter == SeqsUpTo(S, n - 1)
         IN shorter \cup {Append(q, x) : q \in {r \in shorter : Len(r) = n - 1}, x \in S}

\* the media directory before the first run: absent, empty, or holding a
\* file under the name of the hash of "abc"
EmptyMediaDir == [exists |-> TRUE, entries |-> [n \in Names |-> NoEntry]]
AbsentMediaDir == [exists |-> FALSE, entries |-> [n \in Names |-> NoEntry]]
MediaDirs ==
    { AbsentMediaDir,
      EmptyMediaDir,
      [EmptyMediaDir EXCEPT !.entries[to_hex(hash_file("abc"))] = PreEntry] }

\* the index file before the first run: absent, or an older file
NoIndexFile == [exists |-> FALSE, bytes |-> <<>>]
IndexFiles == { NoIndexFile, [exists |-> TRUE, bytes |-> <<0>>] }

\* what the validators of get_args find: world and game are directories,
\* the parents of the media directory and of the index file are
AllPathsGood == [world |-> TRUE, game |-> TRUE, mediaParent |-> TRUE, indexParent |-> TRUE]
PathStates ==
    { AllPathsGood,
      [AllPathsGood EXCEPT !.world = FALSE],
      [AllPathsGood EXCEPT !.game = FALSE],
      [AllPathsGood EXCEPT !.mediaParent = FALSE],
      [AllPathsGood EXCEPT !.indexParent = FALSE] }

\* the output options of a command line: without an index path, and with
MediaOptions == { {}, {"media"}, {"out", "media"} }
IndexOptions == { {"out"}, {"index"}, {"media", "index"}, {"out", "index"} }

(* ---------------------------------------------------------------------- *)
(* The program: main, get_args and run, one action per step               *)
(* ---------------------------------------------------------------------- *)

VARIABLES
    platform,     \* the cfg the program was built for
    flags,        \* the transfer flags on the command line
    outopts,      \* the output options on the command line
    linkResolves, \* the asset paths as written resolve from the media directory
    worldMt,      \* <world>/world.mt
    worldmods,    \* <world>/worldmods
    gamemods,     \* <game>/mods
    extras,       \* the extra mod paths
    paths,        \* what the paths of the command line are on the file system
    mediaDir,     \* the media directory
    indexFile,    \* the index file
    pc,           \* where the program is
    mods,         \* run's mods
    ms,           \* run's ms
    k,            \* the extra path being searched
    i,            \* the asset copy_assets is at
    error,        \* how the process ends when it does not end Ok
    runs,         \* how many times the program was started
    collection,   \* ms as discovery left it, before the sort
    visited,      \* the assets copy_assets has reached in this run
    log,          \* the effects of this run, in order
    mediaDir0,    \* the media directory when this run started
    indexFile0    \* the index file when this run started

inputs == <<platform, flags, outopts, linkResolves, worldMt, worldmods, gamemods, extras,
            paths>>
history == <<runs, mediaDir0, indexFile0>>
vars == <<platform, flags, outopts, linkResolves, worldMt, worldmods, gamemods, extras,
          paths,
          mediaDir, indexFile, pc, mods, ms, k, i, error, runs, collection, visited,
          log, mediaDir0, indexFile0>>

Effect(op, name) == [op |-> op, name |-> name]

\* the state of a program that has just been started
Started ==
    /\ pc = "args"
    /\ mods = <<>>
    /\ ms = <<>>
    /\ k = 1
    /\ i = 1
    /\ error = "none"
    /\ collection = <<>>
    /\ visited = {}
    /\ log = <<>>

\* the world and the game vary, the command line is -m <dir> --copy on a
\* fresh directory
InitTrees ==
    /\ platform = "unix"
    /\ flags = {"copy"}
    /\ outopts = {"media"}
    /\ linkResolves = TRUE
    /\ worldMt \in WorldMtFiles
    /\ worldmods \in WorldRoots
    /\ gamemods \in GameRoots
    /\ extras = <<>>
    /\ paths = AllPathsGood
    /\ mediaDir = AbsentMediaDir
    /\ indexFile = NoIndexFile

\* the extra mod paths vary, over two worlds and two games
InitExtras ==
    /\ platform = "unix"
    /\ flags = {"copy"}
    /\ outopts = {"media"}
    /\ linkResolves = TRUE
    /\ worldMt \in WorldMtFiles
    /\ worldmods \in {AbsentRoot, Root(<<ModA>>)}
    /\ gamemods \in {Root(<<>>), Root(<<ModB>>)}
    /\ extras \in SeqsUpTo(ExtraRoots, MaxExtra) \ {<<>>}
    /\ paths = AllPathsGood
    /\ mediaDir = AbsentMediaDir
    /\ indexFile = NoIndexFile

\* the platform, the transfer flags and the media directory vary, over two
\* trees, on command lines without an index path
InitOutputs ==
    /\ platform \in Platforms
    /\ flags \in SUBSET {"copy", "symlink", "hardlink"}
    /\ outopts \in MediaOptions
    /\ linkResolves \in BOOLEAN
    /\ worldMt = [loads |-> TRUE,
                  pairs |-> <<Pair(Key(<<"a">>), "true"), Pair(Key(<<"c">>), "true")>>]
    /\ worldmods \in {AbsentRoot, Root(<<ModB, ModA, ModC>>)}
    /\ gamemods = Root(<<>>)
    /\ extras = <<>>
    /\ paths \in PathStates
    /\ mediaDir \in MediaDirs
    /\ indexFile = NoIndexFile
    /\ mediaDir.exists => paths.mediaParent

\* the index file and the media directory vary, over two trees, on
\* command lines with an index path
InitIndex ==
    /\ platform = "unix"
    /\ flags \in {{}, {"copy"}}
    /\ outopts \in IndexOptions
    /\ linkResolves = TRUE
    /\ worldMt = [loads |-> TRUE,
                  pairs |-> <<Pair(Key(<<"a">>), "true"), Pair(Key(<<"c">>), "true")>>]
    /\ worldmods \in {AbsentRoot, Root(<<ModB, ModA, ModC>>)}
    /\ gamemods = Root(<<>>)
    /\ extras = <<>>
    /\ paths \in {AllPathsGood, [AllPathsGood EXCEPT !.indexParent = FALSE]}
    /\ mediaDir \in MediaDirs
    /\ indexFile \in IndexFiles
    /\ indexFile.exists => paths.indexParent
    /\ ("out" \in outopts /\ ~mediaDir.exists) => ~indexFile.exists

Init ==
    /\ InitTrees \/ InitExtras \/ InitOutputs \/ InitIndex
    /\ Started
    /\ runs = 1
    /\ mediaDir0 = mediaDir
    /\ indexFile0 = indexFile

\* main: Err(e) => println, exit(1)
Fail(e) ==
    /\ pc' = "failed"
    /\ error' = e

\* a run that writes the index before it fills the media directory
NextStageIndexFirst(stage) ==
    CASE stage = "dedup" -> "index"
      [] stage = "index" -> "media"
      [] stage = "media" -> "done"

\* the order of the steps of run after discovery
NextStage(stage) ==
    CASE stage = "dedup" -> "media"
      [] stage = "media" -> "index"
      [] stage = "index" -> "done"

\* the validators of get_args: check_existing_dir on world, game and the
\* extra mod paths, check_new_dir on out and media, check_new_file on index
PathsValid ==
    /\ check_existing_dir(paths.world)
    /\ check_existing_dir(paths.game)
    /\ \A x \in 1..Len(extras) : check_existing_dir(extras[x].isDir)
    /\ (outopts \cap {"out", "media"} # {}) =>
          check_new_dir(mediaDir.exists, paths.mediaParent)
    /\ "index" \in outopts => check_new_file(indexFile.exists, paths.indexParent)

\* get_args: clap exits on a command line it does not accept
GetArgs ==
    /\ pc = "args"
    /\ IF ArgsAccepted(platform, flags, outopts, PathsValid)
       THEN pc' = "mods" /\ error' = error
       ELSE pc' = "usage" /\ error' = "usage"
    /\ UNCHANGED <<inputs, history, mediaDir, indexFile, mods, ms, k, i,
                   collection, visited, log>>

\* let mods = get_mod_list(world_path)?
GetModList ==
    /\ pc = "mods"
    /\ IF worldMt.loads
       THEN /\ mods' = get_mod_list(worldMt)
            /\ pc' = "world"
            /\ error' = error
       ELSE /\ Fail("ini")
            /\ mods' = mods
    /\ UNCHANGED <<inputs, history, mediaDir, indexFile, ms, k, i,
                   collection, visited, log>>

\* a panic unwinds out of main: the process ends with status 101 and
\* has printed nothing on stdout
Unwind ==
    /\ pc' = "panicked"
    /\ error' = "panic"

\* one search_modpack_dir(&mut ms, root, filter)? of run
Search(root, path, filter, next) ==
    LET r == search_modpack_dir(ms, root, path, filter) IN
    /\ ms' = r.ms
    /\ log' = Append(log, Effect("search", <<>>))
    /\ IF r.panic
       THEN Unwind
       ELSE IF r.err
       THEN Fail("io")
       ELSE pc' = next /\ error' = error

\* Search world mods.
SearchWorldMods ==
    /\ pc = "world"
    /\ IF worldmods.exists
       THEN Search(worldmods, MkPath("worldmods", 0, <<>>, "", ""), SomeMods(mods), "game")
       ELSE pc' = "game" /\ UNCHANGED <<ms, error, log>>
    /\ UNCHANGED <<inputs, history, mediaDir, indexFile, mods, k, i,
                   collection, visited>>

\* Search game mods.
SearchGameMods ==
    /\ pc = "game"
    /\ Search(gamemods, MkPath("game", 0, <<>>, "", ""), NoMods,
              IF extras = <<>> THEN "dedup" ELSE "extra")
    /\ UNCHANGED <<inputs, history, mediaDir, indexFile, mods, k, i,
                   collection, visited>>

\* for mod_path in mod_paths
SearchExtraPath ==
    /\ pc = "extra"
    /\ Search(extras[k], MkPath("extra", k, <<>>, "", ""), SomeMods(mods),
              IF k = Len(extras) THEN "dedup" ELSE "extra")
    /\ k' = k + 1
    /\ UNCHANGED <<inputs, history, mediaDir, indexFile, mods, i,
                   collection, visited>>

\* ms.sort_by(...); ms.dedup();
SortDedup ==
    /\ pc = "dedup"
    /\ collection' = ms
    /\ ms' = dedup(sort_by_hash(ms))
    /\ pc' = NextStage("dedup")
    /\ log' = Append(log, Effect("dedup", <<>>))
    /\ UNCHANGED <<inputs, history, mediaDir, indexFile, mods, k, i, error,
                   visited>>

\* if let Some(media_path): create_dir when it does not exist
OpenMediaDir ==
    /\ pc = "media"
    /\ IF ~HasMediaPath(outopts)
       THEN /\ pc' = NextStage("media")
            /\ UNCHANGED <<mediaDir, error, log>>
       ELSE IF mediaDir.exists
       THEN /\ pc' = "copy_assets"
            /\ UNCHANGED <<mediaDir, error, log>>
       ELSE \E created \in BOOLEAN :
            IF created
            THEN /\ mediaDir' = [mediaDir EXCEPT !.exists = TRUE]
                 /\ log' = Append(log, Effect("mkdir", <<>>))
                 /\ pc' = "copy_assets"
                 /\ error' = error
            ELSE /\ Fail("io")
                 /\ UNCHANGED <<mediaDir, log>>
    /\ UNCHANGED <<inputs, history, indexFile, mods, ms, k, i, collection, visited>>

\* copy_assets, up to its loop: AssetCopyMode::None => return Ok(())
CopyAssetsEnter ==
    /\ pc = "copy_assets"
    /\ IF CopyType(flags) = "None"
       THEN /\ pc' = NextStage("media")
            /\ log' = Append(log, Effect("copied", <<>>))
       ELSE /\ pc' = "copy"
            /\ log' = log
    /\ UNCHANGED <<inputs, history, mediaDir, indexFile, mods, ms, k, i, error,
                   collection, visited>>

\* one turn of the loop of copy_assets
CopyAsset ==
    /\ pc = "copy"
    /\ i <= Len(ms)
    /\ LET asset == ms[i]
           to_path == to_hex(asset.hash)
           e == mediaDir.entries[to_path]
       IN /\ visited' = visited \cup {i}
          /\ IF PathExists(e)
             THEN /\ i' = i + 1
                  /\ UNCHANGED <<mediaDir, pc, error, log>>
             ELSE \E env \in EnvOutcomes(CopyType(flags)) :
                  LET r == copy_func(CopyType(flags), platform, e, asset, env,
                                     linkResolves)
                  IN IF r.err
                     THEN /\ Fail("io")
                          /\ mediaDir' = [mediaDir EXCEPT !.entries[to_path] = r.entry]
                          /\ UNCHANGED <<i, log>>
                     ELSE /\ mediaDir' = [mediaDir EXCEPT !.entries[to_path] = r.entry]
                          /\ i' = i + 1
                          /\ log' = Append(log, Effect("place", to_path))
                          /\ UNCHANGED <<pc, error>>
    /\ UNCHANGED <<inputs, history, indexFile, mods, ms, k, collection>>

\* copy_assets returns Ok(())
CopyReturn ==
    /\ pc = "copy"
    /\ i > Len(ms)
    /\ pc' = NextStage("media")
    /\ log' = Append(log, Effect("copied", <<>>))
    /\ UNCHANGED <<inputs, history, mediaDir, indexFile, mods, ms, k, i, error,
                   collection, visited>>

\* if let Some(index_path): write_index(&ms, index_path)?
WriteIndex ==
    /\ pc = "index"
    /\ IF ~HasIndexPath(outopts)
       THEN /\ pc' = NextStage("index")
            /\ UNCHANGED <<indexFile, error, log>>
       ELSE \/ \* File::create fails
               /\ Fail("io")
               /\ UNCHANGED <<indexFile, log>>
            \/ \E o \in write_index_outcomes(ms) :
               /\ indexFile' = [exists |-> TRUE,
                                bytes |-> SubSeq(IndexBytes(ms), 1, o.len)]
               /\ log' = Append(log, Effect("index", <<>>))
               /\ IF o.err
                  THEN Fail("io")
                  ELSE pc' = NextStage("index") /\ error' = error
    /\ UNCHANGED <<inputs, history, mediaDir, mods, ms, k, i, collection, visited>>

\* the program is started again, on the file system the last run left
Rerun ==
    /\ pc \in {"done", "failed", "usage", "panicked"}
    /\ runs < MaxRuns
    /\ runs' = runs + 1
    /\ pc' = "args"
    /\ mods' = <<>>
    /\ ms' = <<>>
    /\ k' = 1
    /\ i' = 1
    /\ error' = "none"
    /\ collection' = <<>>
    /\ visited' = {}
    /\ log' = <<>>
    /\ mediaDir0' = mediaDir
    /\ indexFile0' = indexFile
    /\ UNCHANGED <<inputs, mediaDir, indexFile>>

Next ==
    \/ GetArgs
    \/ GetModList
    \/ SearchWorldMods
    \/ SearchGameMods
    \/ SearchExtraPath
    \/ SortDedup
    \/ OpenMediaDir
    \/ CopyAssetsEnter
    \/ CopyAsset
    \/ CopyReturn
    \/ WriteIndex
    \/ Rerun

Spec == Init /\ [][Next]_vars

(* ---------------------------------------------------------------------- *)
(* What the properties speak of                                           *)
(* ---------------------------------------------------------------------- *)

\* this run has sorted and deduplicated: ms is the CanonicalSet and
\* collection the AssetCollection
Canonical == \E j \in 1..Len(log) : log[j].op = "dedup"

\* byte strings of one length in ascending order
LexLess(a, b) ==
    \E p \in 1..Len(a) :
        /\ p <= Len(b)
        /\ a[p] < b[p]
        /\ \A q \in 1..(p - 1) : a[q] = b[q]

HashesOf(q) == {q[j].hash : j \in 1..Len(q)}

\* the place of the first asset of the sequence with the hash
FirstWith(q, h) == CHOOSE j \in 1..Len(q) :
                       /\ q[j].hash = h
                       /\ \A m \in 1..(j - 1) : q[m].hash # h

\* world mods come first, then game mods, then the extra paths in order
RootRank(path) ==
    CASE path.root = "worldmods" -> 0
      [] path.root = "game" -> 1
      [] path.root = "extra" -> 1 + path.idx

\* an index file read back: the 6 bytes of the header are dropped, the
\* rest is cut into pieces of 20 bytes
Decode(bytes) ==
    [j \in 1..((Len(bytes) - 6) \div 20) |->
        SubSeq(bytes, 6 + 20 * (j - 1) + 1, 6 + 20 * j)]

\* world.mt has the key load_mod_<name> with the value true
EnabledInWorldMt(name) ==
    \E j \in 1..Len(worldMt.pairs) :
        /\ worldMt.pairs[j].key = LoadModPrefix \o name
        /\ worldMt.pairs[j].value = "true"

\* the leaf mods of a directory: a directory with modpack.txt is looked
\* into, else a directory with init.lua is a leaf mod
RECURSIVE LeafMods(_, _)
LeafMods(entries, dirs) ==
    UNION { LET e == entries[j] IN
            IF ~e.isDir THEN {}
            ELSE IF e.modpack THEN LeafMods(e.entries, Append(dirs, e.name))
            ELSE IF e.init THEN {[dirs |-> Append(dirs, e.name), mod |-> e]}
            ELSE {}
          : j \in 1..Len(entries) }

\* the regular files right under the media folders of a mod
FilesOf(mod) ==
    UNION { IF mod.media[m].isDir
            THEN {[media |-> m, file |-> mod.media[m].files[j].name] :
                     j \in {x \in 1..Len(mod.media[m].files) : mod.media[m].files[x].isFile}}
            ELSE {}
          : m \in {"textures", "models", "sounds"} }

\* the files of the leaf mods below a root; with a filter, of those whose
\* name is in the list
ClaimedFiles(root, idx, entries, filtered, list) ==
    UNION { {MkPath(root, idx, leaf.dirs, f.media, f.file) : f \in FilesOf(leaf.mod)}
          : leaf \in {l \in LeafMods(entries, <<>>) :
                         ~filtered \/ Contains(list, l.mod.name)} }

PathsOf(q) == {q[j].path : j \in 1..Len(q)}

\* a step that fails lies on the walk of a mod: a media folder that cannot
\* be listed or searched, an entry that cannot be read, a file that cannot
\* be hashed
ModFault(mod) ==
    \E m \in {"textures", "models", "sounds"} :
        /\ mod.media[m].isDir
        /\ \/ ~mod.media[m].readable
           \/ \E j \in 1..Len(mod.media[m].files) :
                 \/ mod.media[m].files[j].ioErr
                 \/ ~mod.media[m].searchable
                 \/ mod.media[m].files[j].isFile /\ ~mod.media[m].files[j].readable

\* a step that fails lies on the walk of a directory: an entry that cannot
\* be read, an entry of a directory that cannot be searched, a directory
\* that cannot be searched for its markers, a modpack that cannot be
\* listed, or a step of the walk of a modpack or of a mod that is searched
RECURSIVE FaultIn(_, _)
FaultIn(dir, filtered) ==
    \E j \in 1..Len(dir.entries) :
        LET e == dir.entries[j] IN
        \/ e.ioErr
        \/ ~dir.searchable
        \/ /\ dir.searchable /\ e.isDir
           /\ \/ ~e.searchable
              \/ e.modpack /\ (~e.readable \/ FaultIn(e, filtered))
              \/ /\ ~e.modpack /\ e.init
                 /\ ~filtered \/ EnabledInWorldMt(e.name)
                 /\ ModFault(e)

RootFault(root, filtered) == ~root.readable \/ FaultIn(root, filtered)

\* reading world.mt fails, or a step of the walk of a searched root fails
DiscoveryFault ==
    \/ ~worldMt.loads
    \/ worldmods.exists /\ RootFault(worldmods, TRUE)
    \/ RootFault(gamemods, FALSE)
    \/ \E x \in 1..Len(extras) : RootFault(extras[x], TRUE)

\* the run ended in the loop of copy_assets, at asset i
FailedInCopy == pc = "failed" /\ i \in visited

Logged(op) == \E j \in 1..Len(log) : log[j].op = op

\* the entry of the media directory under the name of the j-th asset
EntryOf(j) == mediaDir.entries[to_hex(ms[j].hash)]

\* the order of the effects of a run
Rank(op) ==
    CASE op = "search" -> 0
      [] op = "dedup" -> 1
      [] op = "mkdir" -> 2
      [] op = "place" -> 3
      [] op = "copied" -> 4
      [] op = "index" -> 5

\* symlink mode where the program was built without symlinks
\* --symlink is on the command line of a program built for a platform
\* without symlinks
SymlinkUnsupported == "symlink" \in flags /\ platform = "other"

(* ---------------------------------------------------------------------- *)
(* The properties                                                         *)
(* ---------------------------------------------------------------------- *)

\* C1: after the sort and the dedup of run, the hashes of ms are in
\* strictly ascending order, so no two elements of ms have the same hash,
\* and every hash of the AssetCollection is the hash of an element of ms.
C1_CanonicalSetStrictlyAscending ==
    Canonical =>
        /\ \A a, b \in 1..Len(ms) : a < b => LexLess(ms[a].hash, ms[b].hash)
        /\ \A a, b \in 1..Len(ms) : a # b => ms[a].hash # ms[b].hash
        /\ HashesOf(collection) \subseteq HashesOf(ms)

\* files with the same bytes were collected, out of hash order
C1_Witness ==
    /\ Canonical
    /\ Len(ms) >= 2
    /\ Len(collection) >= Len(ms) + 2
    /\ \E a, b \in 1..Len(collection) :
          a < b /\ LexLess(collection[b].hash, collection[a].hash)

\* C2: the AssetCollection is in discovery order (world mods, then game
\* mods, then the extra paths in the order given), and the element ms
\* keeps for a hash is the first element of the AssetCollection with that
\* hash, path included.
C2_FirstDiscoveredIsKept ==
    Canonical =>
        /\ \A a, b \in 1..Len(collection) :
              a < b => RootRank(collection[a].path) <= RootRank(collection[b].path)
        /\ \A j \in 1..Len(ms) :
              ms[j] = collection[FirstWith(collection, ms[j].hash)]

\* a hash was found under worldmods, under the game and under the second
\* extra path, and not first where it is kept last; and another hash,
\* found under the two extra paths only, is kept with the path below the
\* first
C2_Witness ==
    /\ Canonical
    /\ Len(extras) = 2
    /\ extras[1] # extras[2]
    /\ \E a, b, c \in 1..Len(collection) :
          /\ collection[a].hash = collection[b].hash
          /\ collection[b].hash = collection[c].hash
          /\ collection[a].path.root = "worldmods"
          /\ collection[b].path.root = "game"
          /\ collection[c].path.root = "extra"
          /\ collection[c].path.idx = 2
          /\ \E j \in 1..Len(ms) : ms[j] = collection[a] /\ j > 1
    /\ \E c, d \in 1..Len(collection) :
          /\ collection[c].hash = collection[d].hash
          /\ collection[c].path.root = "extra" /\ collection[c].path.idx = 1
          /\ collection[d].path.root = "extra" /\ collection[d].path.idx = 2
          /\ \A a \in 1..Len(collection) :
                collection[a].hash = collection[c].hash =>
                    collection[a].path.root = "extra"
          /\ \E j \in 1..Len(ms) : ms[j] = collection[c]

\* C3: the index file a run has written is the 6 bytes M T H S 0 1
\* followed by the 20 bytes of the hash of every element of ms, in the
\* order of ms: 6 + 20 * N bytes, which read back give the hashes of ms.
C3_IndexIsHeaderThenHashes ==
    (pc = "done" /\ HasIndexPath(outopts)) =>
        /\ indexFile.exists
        /\ Len(indexFile.bytes) = 6 + 20 * Len(ms)
        /\ SubSeq(indexFile.bytes, 1, 6) = <<77, 84, 72, 83, 0, 1>>
        /\ Decode(indexFile.bytes) = [j \in 1..Len(ms) |-> ms[j].hash]
        /\ \A j \in 1..Len(ms) : Len(ms[j].hash) = HashLen

\* C4: an asset collected below worldmods or below an extra mod path lies
\* in a leaf mod for whose name world.mt has the key load_mod_<name> with
\* the value true, and every file of the media folders of every leaf mod
\* below the game's mods is collected, whatever world.mt says.
C4_OnlyEnabledModsOutsideGame ==
    Canonical =>
        /\ \A j \in 1..Len(collection) :
              collection[j].path.root \in {"worldmods", "extra"} =>
                  EnabledInWorldMt(collection[j].path.dirs[Len(collection[j].path.dirs)])
        /\ ClaimedFiles("game", 0, gamemods.entries, FALSE, <<>>)
              \subseteq PathsOf(collection)

\* C7: when reading world.mt fails or a step of the walk of a searched
\* root fails (the reading of the metadata of a name in a directory that
\* cannot be searched is such a step), the run never gets to the sort: it
\* ends in an error (a panic before the failing step is reached is a
\* non-zero exit too), and in that run the index file and the media
\* directory stay as they were and copy_assets reaches no asset.
C7_DiscoveryAllOrNothing ==
    DiscoveryFault =>
        /\ pc \in {"args", "usage", "mods", "world", "game", "extra", "failed",
                   "panicked"}
        /\ ~Canonical
        /\ pc = "failed" => error \in {"ini", "io"}
        /\ indexFile = indexFile0
        /\ mediaDir = mediaDir0
        /\ visited = {}

\* C9: the assets collected are the files of the leaf mods of the roots,
\* where a directory with modpack.txt is looked into with the same filter
\* and never checked against the mod list (with init.lua or not), a
\* directory with init.lua and no modpack.txt is a leaf mod, which the
\* filter applies to, and anything else gives nothing; and discovery ends
\* the run, with an error or with a panic, only on a step that fails.
C9_ClassificationOfEntries ==
    /\ Canonical =>
          PathsOf(collection) =
              (IF worldmods.exists
               THEN ClaimedFiles("worldmods", 0, worldmods.entries, TRUE, mods)
               ELSE {})
              \cup ClaimedFiles("game", 0, gamemods.entries, FALSE, <<>>)
              \cup UNION {ClaimedFiles("extra", x, extras[x].entries, TRUE, mods) :
                            x \in 1..Len(extras)}
    /\ (pc \in {"failed", "panicked"} /\ ~Canonical) => DiscoveryFault

\* C5: copy_assets never fails on an asset whose name is already in the
\* media directory and leaves every entry that was there when the run
\* started as it was, and after a run that ended Ok in copy, hardlink or
\* symlink mode every name of ms is in the media directory.
C5_ExistingNamesAreSkipped ==
    /\ FailedInCopy => mediaDir0.entries[to_hex(ms[i].hash)].kind = "none"
    /\ \A n \in Names :
          mediaDir0.entries[n].kind # "none" =>
              /\ mediaDir.entries[n].kind = mediaDir0.entries[n].kind
              /\ mediaDir.entries[n].src = mediaDir0.entries[n].src
    /\ (pc = "done" /\ HasMediaPath(outopts) /\ CopyType(flags) # "None") =>
          \A j \in 1..Len(ms) : EntryOf(j).kind # "none"

\* C6: when the placement of an asset fails, copy_assets has still reached
\* every asset of ms, those after the failing one included, and the run
\* ends in failure.
C6_PlacementFailuresAreIsolated ==
    FailedInCopy =>
        /\ visited = 1..Len(ms)
        /\ error = "io"

\* C8 as claimed: when --symlink is asked for on a platform without
\* symlinks, the run gets to the materialization and fails there, with
\* the error of the placement, whatever ms and the media directory are.
C8_SymlinkUnsupportedFailsInMaterialization ==
    (SymlinkUnsupported /\ pc \in {"usage", "failed", "done"}) =>
        /\ pc = "failed"
        /\ error = "io"
        /\ Canonical

\* C8: when --symlink is asked for on a platform without symlinks, get_args
\* refuses the command line, whatever the trees and the media directory
\* are: the run ends with a usage error before it has read anything, it
\* places nothing by any strategy, creates no directory, writes no index
\* and never ends Ok.
C8_SymlinkUnsupportedRefusedByGetArgs ==
    SymlinkUnsupported =>
        /\ pc \in {"args", "usage"}
        /\ pc = "usage" => error = "usage"
        /\ log = <<>>
        /\ ms = <<>>
        /\ visited = {}
        /\ mediaDir = mediaDir0
        /\ indexFile = indexFile0

\* --symlink alone with a media path that is valid, on a world with mods
\* and a media directory that holds a name, refused a second time
C8_Witness ==
    /\ SymlinkUnsupported
    /\ flags = {"symlink"}
    /\ outopts = {"media"}
    /\ PathsValid
    /\ worldmods.exists
    /\ mediaDir.exists
    /\ mediaDir.entries[to_hex(hash_file("abc"))].kind = "pre"
    /\ pc = "usage"
    /\ runs = 2

\* C10: the effects of a run come in the order search, sort and dedup,
\* create_dir, placements, return of copy_assets, index; the index file is
\* touched only after copy_assets has returned Ok (when there is a media
\* path); and when create_dir or a placement fails, the index file is as
\* it was when the run started and the assets placed before are in the
\* media directory.
C10_IndexAfterMaterialization ==
    /\ \A a, b \in 1..Len(log) : a < b => Rank(log[a].op) <= Rank(log[b].op)
    /\ Logged("index") => Canonical /\ (HasMediaPath(outopts) => Logged("copied"))
    /\ indexFile # indexFile0 => Logged("index")
    /\ pc = "index" => (HasMediaPath(outopts) => Logged("copied"))
    /\ (pc = "failed" /\ Canonical /\ HasMediaPath(outopts) /\ ~Logged("copied")) =>
          /\ indexFile = indexFile0
          /\ ~Logged("index")
          /\ \A j \in 1..Len(log) :
                log[j].op = "place" => mediaDir.entries[log[j].name].kind # "none"

\* a placement failed after another had been made; the older index file
\* is still there
C10_Witness ==
    /\ pc = "failed"
    /\ FailedInCopy
    /\ HasIndexPath(outopts)
    /\ Logged("place")
    /\ indexFile0.exists
    /\ indexFile = indexFile0
    /\ runs = 1

====
